---- MODULE Spec2Model ----
(***************************************************************************)
(* A model of the image processing service of src/app.py: the /process     *)
(* request handler (process_image), the OPERATIONS registry and, step by   *)
(* step, the hand-written box filter apply_noise_reduction.                *)
(*                                                                         *)
(* numpy arrays live in a heap of reference-counted objects: the local     *)
(* names of apply_noise_reduction (img_array, result, padded, output) hold *)
(* array ids, 0 meaning "unbound", and an array is released as soon as no  *)
(* name refers to it (CPython reference counting).                         *)
(*                                                                         *)
(* float32 samples are represented exactly as integers in units of         *)
(* 1/Scale, Scale = 9^3: three passes of a mean over nine values never     *)
(* need a finer unit.  The rounding of float32 arithmetic is not modelled. *)
(*                                                                         *)
(* The Pillow filters (blur, sharpen, edge_detect, grayscale, enhance,     *)
(* rotate) are library code: only the mode and the size of their result    *)
(* are modelled, not its pixel values.                                     *)
(***************************************************************************)
EXTENDS Integers, Sequences, FiniteSets, TLC

VARIABLES
    pc,               \* position of the request in process_image / apply_noise_reduction
    request,          \* the incoming request: files, form
    operation,        \* process_image's local `operation`
    image,            \* process_image's local `image` (the argument of the transform)
    processed_image,  \* process_image's local `processed_image`
    response,         \* the response returned: status 0 while none
    called,           \* the transform OPERATIONS[operation] that was invoked, "" if none
    heap,             \* live numpy arrays: id -> array
    img_array,        \* apply_noise_reduction locals: array ids, 0 when unbound
    result,
    padded,
    output,
    tmp,              \* the value of a right-hand side not yet bound to its name
    pass,             \* the loop variable of `for _ in range(3)`
    todo,             \* the pixels (i, j) the two inner loops have not visited yet
    passesDone,       \* observer: how many times line 142 has run
    conversions       \* observer: how many times line 145 has run

vars == <<pc, request, operation, image, processed_image, response, called, heap,
          img_array, result, padded, output, tmp, pass, todo, passesDone, conversions>>

----------------------------------------------------------------------------
(* Bounds of the model *)

\* uniform and ramp images have sides 1..MaxSide
MaxSide == 4
\* images with arbitrary pixels from Palette have at most MaxPixels pixels
MaxPixels == 4

(* Program constants *)

kernel_size == 3
NumPasses == 3
ClipLo == 0
ClipHi == 255

KernelArea == kernel_size * kernel_size
\* the unit of a float32 sample is 1/Scale
Scale == KernelArea ^ NumPasses

----------------------------------------------------------------------------
(* Pillow images: mode, size = <<width, height>>, px[<<x, y>>] = the tuple  *)
(* of band values of the pixel in column x, row y.                         *)

Bands(mode) == CASE mode = "L" -> 1 [] mode = "RGB" -> 3 [] mode = "RGBA" -> 4 [] OTHER -> 0

Coords(w, h) == (0..(w - 1)) \X (0..(h - 1))

NoImage == [mode |-> "None", size |-> <<0, 0>>, px |-> <<>>]
\* bytes that are not an image
Garbage == [mode |-> "garbage", size |-> <<0, 0>>, px |-> <<>>]

UniformValues == {0, 1, 100, 254, 255}

UniformImage(mode, w, h, v) ==
    [mode |-> mode, size |-> <<w, h>>,
     px |-> [p \in Coords(w, h) |-> [b \in 1..Bands(mode) |-> v]]]

\* a fixed image whose samples differ from pixel to pixel and from band to band
RampImage(mode, w, h) ==
    [mode |-> mode, size |-> <<w, h>>,
     px |-> [p \in Coords(w, h) |->
                [b \in 1..Bands(mode) |-> (37 * p[1] + 91 * p[2] + 50 * b) % 256]]]

Palette(mode) ==
    CASE mode = "L" -> {<<0>>, <<100>>, <<255>>}
      [] mode = "RGB" -> {<<0, 0, 0>>, <<255, 0, 100>>, <<100, 255, 255>>}
      [] OTHER -> {<<255, 0, 100, 128>>}

Sizes(maxPixels, maxSide) ==
    {s \in (1..maxSide) \X (1..maxSide) : s[1] * s[2] <= maxPixels}

PatternImages(mode) ==
    UNION {{[mode |-> mode, size |-> s, px |-> f] : f \in [Coords(s[1], s[2]) -> Palette(mode)]}
           : s \in Sizes(MaxPixels, MaxPixels)}

Images ==
    {UniformImage(m, s[1], s[2], v) :
        m \in {"L", "RGB"}, s \in (1..MaxSide) \X (1..MaxSide), v \in UniformValues}
    \cup {RampImage(m, s[1], s[2]) : m \in {"L", "RGB"}, s \in (1..MaxSide) \X (1..MaxSide)}
    \cup PatternImages("L") \cup PatternImages("RGB") \cup PatternImages("RGBA")

NumPixels(im) == im.size[1] * im.size[2]

----------------------------------------------------------------------------
(* numpy arrays: dtype, shape, data[index tuple].  A float32 sample x is    *)
(* stored as the integer x * Scale.                                        *)

Indices(shape) ==
    IF Len(shape) = 2
    THEN (0..(shape[1] - 1)) \X (0..(shape[2] - 1))
    ELSE (0..(shape[1] - 1)) \X (0..(shape[2] - 1)) \X (0..(shape[3] - 1))

\* np.array(image): a mode "L" image gives a 2-dimensional array (height, width),
\* an image of several bands a 3-dimensional one (height, width, bands)
NpArray(im) ==
    LET w == im.size[1]
        h == im.size[2]
        shape == IF Bands(im.mode) = 1 THEN <<h, w>> ELSE <<h, w, Bands(im.mode)>>
    IN [dtype |-> "uint8", shape |-> shape,
        data |-> [p \in Indices(shape) |->
                    IF Len(shape) = 2 THEN im.px[<<p[2], p[1]>>][1]
                    ELSE im.px[<<p[2], p[1]>>][p[3] + 1]]]

\* img_array.astype(np.float32)
AsFloat32(a) ==
    [dtype |-> "float32", shape |-> a.shape,
     data |-> [p \in DOMAIN a.data |-> a.data[p] * Scale]]

\* the pad_width argument of np.pad at lines 131-133: one (before, after) pair per axis
PadWidth ==
    <<<<kernel_size \div 2, kernel_size \div 2>>,
      <<kernel_size \div 2, kernel_size \div 2>>,
      <<0, 0>>>>

\* np.pad accepts pad_width only if it has one pair per axis of the array
\* (a single pair would broadcast); otherwise it raises ValueError
PadAccepts(a) == Len(PadWidth) = Len(a.shape)

\* as PadAxis0 with np.pad's default mode='constant': the pad rows are zero
PadAxis0_constant(a, before, after) ==
    LET h == a.shape[1]
        shape == <<h + before + after, a.shape[2], a.shape[3]>>
    IN [dtype |-> a.dtype, shape |-> shape,
        data |-> [p \in Indices(shape) |->
                    IF p[1] < before \/ p[1] >= before + h THEN 0
                    ELSE a.data[<<p[1] - before, p[2], p[3]>>]]]

\* mode='edge' along the rows: the pad rows repeat the first and the last row
PadAxis0(a, before, after) ==
    LET h == a.shape[1]
        shape == <<h + before + after, a.shape[2], a.shape[3]>>
    IN [dtype |-> a.dtype, shape |-> shape,
        data |-> [p \in Indices(shape) |->
                    IF p[1] < before THEN a.data[<<0, p[2], p[3]>>]
                    ELSE IF p[1] >= before + h THEN a.data[<<h - 1, p[2], p[3]>>]
                    ELSE a.data[<<p[1] - before, p[2], p[3]>>]]]

\* mode='edge' along the columns, applied to the array already padded along the rows
PadAxis1(a, before, after) ==
    LET w == a.shape[2]
        shape == <<a.shape[1], w + before + after, a.shape[3]>>
    IN [dtype |-> a.dtype, shape |-> shape,
        data |-> [p \in Indices(shape) |->
                    IF p[2] < before THEN a.data[<<p[1], 0, p[3]>>]
                    ELSE IF p[2] >= before + w THEN a.data[<<p[1], w - 1, p[3]>>]
                    ELSE a.data[<<p[1], p[2] - before, p[3]>>]]]

\* np.pad(result, PadWidth, mode='edge'): axis by axis; the channel axis is not padded
Pad(a) ==
    PadAxis1(PadAxis0(a, PadWidth[1][1], PadWidth[1][2]), PadWidth[2][1], PadWidth[2][2])

\* np.zeros_like(result)
ZerosLike(a) == [dtype |-> a.dtype, shape |-> a.shape, data |-> [p \in DOMAIN a.data |-> 0]]

RECURSIVE SumSeq(_)
SumSeq(s) == IF s = <<>> THEN 0 ELSE Head(s) + SumSeq(Tail(s))

\* the samples of channel k in buf[i:i+kernel_size, j:j+kernel_size], row by row
Window(buf, i, j, k) ==
    [n \in 1..KernelArea |->
        buf.data[<<i + ((n - 1) \div kernel_size), j + ((n - 1) % kernel_size), k>>]]

\* as Mean with the sum divided by one less than the number of samples
Mean_offByOne(buf, i, j) ==
    [k \in 0..(buf.shape[3] - 1) |->
        SumSeq(Window(buf, i, j, k)) \div (Len(Window(buf, i, j, k)) - 1)]

\* np.mean(buf[i:i+kernel_size, j:j+kernel_size], axis=(0, 1)): one mean per channel
Mean(buf, i, j) ==
    [k \in 0..(buf.shape[3] - 1) |->
        SumSeq(Window(buf, i, j, k)) \div Len(Window(buf, i, j, k))]

\* output[i, j] = vec
SetPixel(a, i, j, vec) ==
    [a EXCEPT !.data = [p \in DOMAIN a.data |->
                            IF p[1] = i /\ p[2] = j THEN vec[p[3]] ELSE a.data[p]]]

Clamp(x, lo, hi) == IF x < lo THEN lo ELSE IF x > hi THEN hi ELSE x

\* np.clip(result, 0, 255)
Clip(a) ==
    [a EXCEPT !.data = [p \in DOMAIN a.data |->
                            Clamp(a.data[p], ClipLo * Scale, ClipHi * Scale)]]

\* .astype(np.uint8) of a float array: the fraction is cut off
AsUint8(a) ==
    [dtype |-> "uint8", shape |-> a.shape,
     data |-> [p \in DOMAIN a.data |-> (a.data[p] \div Scale) % 256]]

\* Image.fromarray(result) for a uint8 array (height, width, bands)
FromArray(a) ==
    LET h == a.shape[1]
        w == a.shape[2]
        mode == IF a.shape[3] = 3 THEN "RGB" ELSE "RGBA"
    IN [mode |-> mode, size |-> <<w, h>>,
        px |-> [p \in Coords(w, h) |-> [b \in 1..a.shape[3] |-> a.data[<<p[2], p[1], b - 1>>]]]]

\* range(result.shape[0]) x range(result.shape[1]) in the order of the nested loops
RowMajor(h, w) == [n \in 1..(h * w) |-> <<(n - 1) \div w, (n - 1) % w>>]

----------------------------------------------------------------------------
(* The Pillow transforms, by mode and size only *)

NoPixels == <<>>

\* image.filter(...), ImageEnhance.*.enhance(...): same mode, same size
SameShape(im) == [mode |-> im.mode, size |-> im.size, px |-> NoPixels]

apply_blur(im) == SameShape(im)
apply_sharpen(im) == SameShape(im)
apply_edge_detect(im) == SameShape(im)
apply_enhance(im) == SameShape(SameShape(SameShape(im)))

\* image.convert('L')
apply_grayscale(im) == [mode |-> "L", size |-> im.size, px |-> NoPixels]

\* sin 45 = cos 45 as the fraction SinNum / SinDen
SinNum == 70711
SinDen == 100000
CeilDiv(x, y) == -((-x) \div y)

\* Image.rotate(+-45, expand=True): the bounding box of the four rotated corners,
\* ceil(max) - floor(min) along each axis, the rotation being about the centre
RotateExpand(im) ==
    LET w == im.size[1]
        h == im.size[2]
        reach == SinNum * (w + h)
        nw == CeilDiv(w * SinDen + reach, 2 * SinDen) - ((w * SinDen - reach) \div (2 * SinDen))
        nh == CeilDiv(h * SinDen + reach, 2 * SinDen) - ((h * SinDen - reach) \div (2 * SinDen))
    IN [mode |-> im.mode, size |-> <<nw, nh>>, px |-> NoPixels]

\* rotate(45), rotate(-45), transpose(FLIP_LEFT_RIGHT): the flip keeps the size
apply_rotate(im) == SameShape(RotateExpand(RotateExpand(im)))

\* the registry: operation name -> transform
OPERATIONS ==
    [blur |-> "apply_blur", sharpen |-> "apply_sharpen", edge_detect |-> "apply_edge_detect",
     grayscale |-> "apply_grayscale", enhance |-> "apply_enhance", rotate |-> "apply_rotate",
     noise_reduction |-> "apply_noise_reduction"]

\* the call of a Pillow transform by its name
CallPillowTransform(fn, im) ==
    CASE fn = "apply_blur" -> apply_blur(im)
      [] fn = "apply_sharpen" -> apply_sharpen(im)
      [] fn = "apply_edge_detect" -> apply_edge_detect(im)
      [] fn = "apply_grayscale" -> apply_grayscale(im)
      [] fn = "apply_enhance" -> apply_enhance(im)
      [] OTHER -> apply_rotate(im)

\* image.convert('RGB') of an RGBA image: the alpha band is dropped
ConvertRGB(im) ==
    [mode |-> "RGB", size |-> im.size,
     px |-> [p \in DOMAIN im.px |-> SubSeq(im.px[p], 1, 3)]]

\* as GetOperation with the form field never read
GetOperation_ignored(form) == "blur"

\* request.form.get('operation', 'blur')
GetOperation(form) == IF form.hasOperation THEN form.operation ELSE "blur"

----------------------------------------------------------------------------
(* Requests *)

NoResponse == [status |-> 0, error |-> ""]

FormOperations == DOMAIN OPERATIONS \cup {"not_a_real_op", ""}

Forms ==
    {[hasOperation |-> TRUE, operation |-> o] : o \in FormOperations}
    \cup {[hasOperation |-> FALSE, operation |-> ""]}

\* the images sent with requests whose pixels no modelled code reads
PlainPayloads ==
    {Garbage} \cup {im \in Images : NumPixels(im) <= 2}

RequestsOver(images) ==
    {r \in [hasFile : BOOLEAN, filename : {"", "photo.png"}, form : Forms,
            payload : images \cup {Garbage}] :
        \/ r.hasFile /\ r.filename # "" /\ GetOperation(r.form) = "noise_reduction"
        \/ r.payload \in PlainPayloads}

InitOver(images) ==
    /\ pc = "validate"
    /\ request \in RequestsOver(images)
    /\ operation = ""
    /\ image = NoImage
    /\ processed_image = NoImage
    /\ response = NoResponse
    /\ called = ""
    /\ heap = <<>>
    /\ img_array = 0
    /\ result = 0
    /\ padded = 0
    /\ output = 0
    /\ tmp = 0
    /\ pass = 0
    /\ todo = <<>>
    /\ passesDone = 0
    /\ conversions = 0

Init == InitOver(Images)

----------------------------------------------------------------------------
(* The heap *)

NewId(h) == CHOOSE n \in 1..(Cardinality(DOMAIN h) + 1) :
                n \notin DOMAIN h /\ \A m \in 1..(n - 1) : m \in DOMAIN h

\* an array no name refers to is released
Release(h, roots) == [id \in (DOMAIN h \cap roots) |-> h[id]]

FrameUnchanged == UNCHANGED <<img_array, result, padded, output, tmp, pass, todo>>
HandlerUnchanged == UNCHANGED <<request, operation, image, processed_image, response, called>>
ObserversUnchanged == UNCHANGED <<passesDone, conversions>>

\* the frame of apply_noise_reduction is left: by return or by an exception
LeaveFrame ==
    /\ heap' = <<>>
    /\ img_array' = 0 /\ result' = 0 /\ padded' = 0 /\ output' = 0 /\ tmp' = 0
    /\ pass' = 0 /\ todo' = <<>>

\* return jsonify({'error': ...}), status
Respond(status, error) ==
    /\ response' = [status |-> status, error |-> error]
    /\ pc' = "done"

----------------------------------------------------------------------------
(* process_image *)

\* lines 179-192: the request is validated, the operation looked up
Validate ==
    /\ pc = "validate"
    /\ IF ~request.hasFile
       THEN Respond(400, "No image provided") /\ UNCHANGED operation
       ELSE IF request.filename = ""
       THEN Respond(400, "No image selected") /\ UNCHANGED operation
       ELSE /\ operation' = GetOperation(request.form)
            /\ IF operation' \notin DOMAIN OPERATIONS
               THEN Respond(400, "Invalid operation")
               ELSE pc' = "open" /\ UNCHANGED response
    /\ UNCHANGED <<request, image, processed_image, called, heap>>
    /\ FrameUnchanged /\ ObserversUnchanged

\* lines 194-200 and 220-221: Image.open raises on bytes that are no image
OpenImage ==
    /\ pc = "open"
    /\ IF request.payload.mode = "garbage"
       THEN Respond(500, "cannot identify image file") /\ UNCHANGED image
       ELSE /\ image' = IF request.payload.mode = "RGBA"
                        THEN ConvertRGB(request.payload) ELSE request.payload
            /\ pc' = "call"
            /\ UNCHANGED response
    /\ UNCHANGED <<request, operation, processed_image, called, heap>>
    /\ FrameUnchanged /\ ObserversUnchanged

\* line 203 for the Pillow transforms
CallPillow ==
    /\ pc = "call"
    /\ OPERATIONS[operation] # "apply_noise_reduction"
    /\ called' = OPERATIONS[operation]
    /\ processed_image' = CallPillowTransform(OPERATIONS[operation], image)
    /\ pc' = "save"
    /\ UNCHANGED <<request, operation, image, response, heap>>
    /\ FrameUnchanged /\ ObserversUnchanged

\* lines 205-218: the JPEG is written and sent
Save ==
    /\ pc = "save"
    /\ response' = [status |-> 200, error |-> ""]
    /\ pc' = "done"
    /\ UNCHANGED <<request, operation, image, processed_image, called, heap>>
    /\ FrameUnchanged /\ ObserversUnchanged

----------------------------------------------------------------------------
(* apply_noise_reduction, statement by statement *)

Roots(refs) == {r \in refs : r # 0}

\* as ReadBuffer for a filter run in place: the values already written in this pass
\* are read instead of those of the pass input
ReadBuffer_inPlace ==
    LET half == kernel_size \div 2
        out == heap[output]
        written(i, j) ==
            /\ i \in 0..(out.shape[1] - 1)
            /\ j \in 0..(out.shape[2] - 1)
            /\ \A n \in DOMAIN todo : todo[n] # <<i, j>>
    IN [heap[padded] EXCEPT !.data =
            [p \in DOMAIN heap[padded].data |->
                IF written(p[1] - half, p[2] - half)
                THEN out.data[<<p[1] - half, p[2] - half, p[3]>>]
                ELSE heap[padded].data[p]]]

\* the buffer the pixel loop reads at lines 138-141
ReadBuffer == heap[padded]

\* line 203 for noise_reduction, and line 121: img_array = np.array(image)
CallNoiseReduction ==
    /\ pc = "call"
    /\ OPERATIONS[operation] = "apply_noise_reduction"
    /\ called' = OPERATIONS[operation]
    /\ LET id == NewId(heap)
       IN /\ heap' = heap @@ (id :> NpArray(image))
          /\ img_array' = id
    /\ pc' = "promote"
    /\ UNCHANGED <<request, operation, image, processed_image, response>>
    /\ UNCHANGED <<result, padded, output, tmp, pass, todo>>
    /\ ObserversUnchanged

\* line 125: result = img_array.astype(np.float32); line 128: the loop is entered
Promote ==
    /\ pc = "promote"
    /\ LET id == NewId(heap)
       IN /\ heap' = heap @@ (id :> AsFloat32(heap[img_array]))
          /\ result' = id
    /\ pass' = 0
    /\ pc' = "pad"
    /\ HandlerUnchanged /\ ObserversUnchanged
    /\ UNCHANGED <<img_array, padded, output, tmp, todo>>

\* lines 131-133, the right-hand side: np.pad builds a new array, or raises
\* ValueError, which process_image answers at lines 220-221
PadEval ==
    /\ pc = "pad"
    /\ IF PadAccepts(heap[result])
       THEN /\ LET id == NewId(heap)
               IN /\ heap' = heap @@ (id :> Pad(heap[result]))
                  /\ tmp' = id
            /\ pc' = "pad_bind"
            /\ UNCHANGED <<response, img_array, result, padded, output, pass, todo>>
       ELSE /\ Respond(500, "operands could not be broadcast together")
            /\ LeaveFrame
    /\ UNCHANGED <<request, operation, image, processed_image, called>>
    /\ ObserversUnchanged

\* lines 131-133, the assignment: padded = <the new array>
PadBind ==
    /\ pc = "pad_bind"
    /\ padded' = tmp
    /\ tmp' = 0
    /\ heap' = Release(heap, Roots({img_array, result, padded', output, tmp'}))
    /\ pc' = "alloc"
    /\ HandlerUnchanged /\ ObserversUnchanged
    /\ UNCHANGED <<img_array, result, output, pass, todo>>

\* lines 135-137: output = np.zeros_like(result); the pixel loops start
AllocOutput ==
    /\ pc = "alloc"
    /\ LET id == NewId(heap)
       IN /\ output' = id
          /\ heap' = Release(heap @@ (id :> ZerosLike(heap[result])),
                             Roots({img_array, result, padded, id, tmp}))
    /\ todo' = RowMajor(heap[result].shape[1], heap[result].shape[2])
    /\ pc' = "pixel"
    /\ HandlerUnchanged /\ ObserversUnchanged
    /\ UNCHANGED <<img_array, result, padded, tmp, pass>>

Remove(s, n) == SubSeq(s, 1, n - 1) \o SubSeq(s, n + 1, Len(s))

\* lines 138-141 for the n-th pixel still to do: output[i, j] = np.mean(window)
PixelAt(n) ==
    /\ pc = "pixel"
    /\ n \in 1..Len(todo)
    /\ LET i == todo[n][1]
           j == todo[n][2]
       IN heap' = [heap EXCEPT ![output] = SetPixel(heap[output], i, j, Mean(ReadBuffer, i, j))]
    /\ todo' = Remove(todo, n)
    /\ pc' = IF todo' = <<>> THEN "end_pass" ELSE "pixel"
    /\ HandlerUnchanged /\ ObserversUnchanged
    /\ UNCHANGED <<img_array, result, padded, output, tmp, pass>>

\* the loops of lines 136-137 take the pixels row by row
Pixel == PixelAt(1)

\* the pixels of a pass taken in any order
PixelAnyOrder == \E n \in 1..Len(todo) : PixelAt(n)

\* as EndPass with result = output.copy(): the pass output stays bound to `output`
\* beside its copy
EndPass_copy ==
    /\ pc = "end_pass"
    /\ LET id == NewId(heap)
       IN /\ result' = id
          /\ heap' = Release(heap @@ (id :> heap[output]),
                             Roots({img_array, id, padded, output, tmp}))
    /\ passesDone' = passesDone + 1
    /\ IF pass + 1 < NumPasses
       THEN pass' = pass + 1 /\ pc' = "pad"
       ELSE pass' = pass /\ pc' = "clip"
    /\ HandlerUnchanged
    /\ UNCHANGED <<img_array, padded, output, tmp, todo, conversions>>

\* line 142: result = output; line 128: the next pass, or the loop ends
EndPass ==
    /\ pc = "end_pass"
    /\ result' = output
    /\ heap' = Release(heap, Roots({img_array, result', padded, output, tmp}))
    /\ passesDone' = passesDone + 1
    /\ IF pass + 1 < NumPasses
       THEN pass' = pass + 1 /\ pc' = "pad"
       ELSE pass' = pass /\ pc' = "clip"
    /\ HandlerUnchanged
    /\ UNCHANGED <<img_array, padded, output, tmp, todo, conversions>>

\* line 145, np.clip(result, 0, 255): a new float array
ClipEval ==
    /\ pc = "clip"
    /\ LET id == NewId(heap)
       IN /\ heap' = heap @@ (id :> Clip(heap[result]))
          /\ tmp' = id
    /\ pc' = "convert"
    /\ HandlerUnchanged /\ ObserversUnchanged
    /\ UNCHANGED <<img_array, result, padded, output, pass, todo>>

\* line 145, .astype(np.uint8) and the assignment to result
ConvertBind ==
    /\ pc = "convert"
    /\ LET id == NewId(heap)
       IN /\ result' = id
          /\ tmp' = 0
          /\ heap' = Release(heap @@ (id :> AsUint8(heap[tmp])),
                             Roots({img_array, id, padded, output}))
    /\ conversions' = conversions + 1
    /\ pc' = "return"
    /\ HandlerUnchanged
    /\ UNCHANGED <<img_array, padded, output, pass, todo, passesDone>>

\* line 146: return Image.fromarray(result); line 203: processed_image = ...
Return ==
    /\ pc = "return"
    /\ processed_image' = FromArray(heap[result])
    /\ LeaveFrame
    /\ pc' = "save"
    /\ UNCHANGED <<request, operation, image, response, called>>
    /\ ObserversUnchanged

----------------------------------------------------------------------------
(* Specifications *)

Handler ==
    \/ Validate
    \/ OpenImage
    \/ CallPillow
    \/ CallNoiseReduction
    \/ Promote
    \/ PadEval
    \/ PadBind
    \/ AllocOutput
    \/ EndPass
    \/ ClipEval
    \/ ConvertBind
    \/ Return
    \/ Save

Next == Handler \/ Pixel

\* every request of the model, the pixels of a pass visited as the code visits them
Spec == Init /\ [][Next]_vars

SmallImages == {im \in Images : NumPixels(im) <= MaxPixels}

InitAnyOrder == InitOver(SmallImages)

NextAnyOrder == Handler \/ PixelAnyOrder

\* the pixels of a pass visited in every order, on the images of at most MaxPixels pixels
SpecAnyOrder == InitAnyOrder /\ [][NextAnyOrder]_vars

----------------------------------------------------------------------------
(* Vocabulary of the claims *)

Range(s) == {s[n] : n \in DOMAIN s}

\* the request carries a file with a name whose bytes are an image
ValidImageSent ==
    /\ request.hasFile
    /\ request.filename # ""
    /\ request.payload.mode \in {"L", "RGB", "RGBA"}

\* the four error kinds of a request
InvalidInput == ~request.hasFile \/ request.filename = ""
UnknownOperation ==
    /\ request.form.hasOperation
    /\ request.form.operation \notin
         {"blur", "sharpen", "edge_detect", "grayscale", "enhance", "rotate", "noise_reduction"}
DecodeFailure == request.payload.mode = "garbage"
ProcessingFailure == called # "" /\ processed_image = NoImage

NoiseReductionCalled == called = "apply_noise_reduction"

IsUniform(im) ==
    \E v \in 0..255 : \A p \in DOMAIN im.px : \A b \in DOMAIN im.px[p] : im.px[p][b] = v

Min(S) == CHOOSE x \in S : \A y \in S : x <= y
Max(S) == CHOOSE x \in S : \A y \in S : x >= y

ChannelSamples(im, b) == {im.px[p][b] : p \in DOMAIN im.px}

\* the band an array index belongs to
Band(p) == IF Len(p) = 3 THEN p[3] + 1 ELSE 1

\* every sample of the float array lies between the input minimum and maximum of its band
WithinInput(arr, cells) ==
    \A p \in cells :
        /\ arr.data[p] >= Min(ChannelSamples(image, Band(p))) * Scale
        /\ arr.data[p] <= Max(ChannelSamples(image, Band(p))) * Scale

\* the cells of the pass output written so far
WrittenCells(arr) == {p \in DOMAIN arr.data : <<p[1], p[2]>> \notin Range(todo)}

\* the nine neighbours of (i, j) in channel k, each index clamped into the array
Neighbours(arr, i, j, k) ==
    [n \in 1..9 |->
        arr.data[<<Clamp(i - 1 + ((n - 1) \div 3), 0, arr.shape[1] - 1),
                   Clamp(j - 1 + ((n - 1) % 3), 0, arr.shape[2] - 1), k>>]]

LiveFloats == {id \in DOMAIN heap : heap[id].dtype = "float32"}

----------------------------------------------------------------------------
(* The claims *)

\* C1: a request with a valid image and an operation name outside the registry ends
\* with the "Invalid operation" client error; no transform is invoked, no array is
\* built and no output image is produced.
C1_UnknownOperation ==
    (ValidImageSent /\ UnknownOperation) =>
        /\ called = ""
        /\ processed_image = NoImage
        /\ image = NoImage
        /\ heap = <<>>
        /\ pc \in {"validate", "done"}
        /\ pc = "done" => response = [status |-> 400, error |-> "Invalid operation"]

C1_Witness ==
    /\ ValidImageSent
    /\ request.form.hasOperation /\ request.form.operation = "not_a_real_op"
    /\ pc = "done"
    /\ response.status = 400

\* C2: noise_reduction on a buffer whose every sample equals v keeps every sample
\* equal to v through each pass and returns a buffer identical to the input.
C2_UniformIdentity ==
    (NoiseReductionCalled /\ IsUniform(image)) =>
        /\ (result # 0 /\ heap[result].dtype = "float32") =>
              \A p \in DOMAIN heap[result].data :
                  heap[result].data[p] = image.px[<<0, 0>>][1] * Scale
        /\ pc = "done" => (response.status = 200 /\ processed_image = image)

\* C3: noise_reduction on the 4x4 single-channel buffer of samples 100 completes
\* without error and returns the same 4x4 single-channel buffer.
C3_SingleChannel ==
    (/\ ValidImageSent
     /\ request.payload = UniformImage("L", 4, 4, 100)
     /\ GetOperation(request.form) = "noise_reduction"
     /\ pc = "done") =>
        /\ response.status = 200
        /\ processed_image = UniformImage("L", 4, 4, 100)

\* C4: blur, sharpen, edge_detect, enhance and noise_reduction return, for every valid
\* input buffer, a buffer of the same width, height and channel count.
C4_SameDimensions ==
    (/\ pc = "done"
     /\ called \in {"apply_blur", "apply_sharpen", "apply_edge_detect", "apply_enhance",
                    "apply_noise_reduction"}) =>
        /\ processed_image # NoImage
        /\ processed_image.size = image.size
        /\ Bands(processed_image.mode) = Bands(image.mode)

\* C5: a request ends in a client error exactly when its input is invalid, its
\* operation unknown or its bytes undecodable, and in a server error only when a
\* transform that was invoked failed.
C5_ErrorMapping ==
    pc = "done" =>
        /\ response.status \in {200, 400, 500}
        /\ (InvalidInput \/ UnknownOperation \/ DecodeFailure) <=> response.status = 400
        /\ response.status = 500 => ProcessingFailure

\* C6: every value a pass has written at (i, j, k) is the mean of the nine values of
\* the pass input at the rows i-1..i+1 and the columns j-1..j+1, each clamped into the
\* buffer, of the same channel k.
C6_BoxMean ==
    pc \in {"pixel", "end_pass"} =>
        \A p \in WrittenCells(heap[output]) :
            KernelArea * heap[output].data[p]
                = SumSeq(Neighbours(heap[result], p[1], p[2], p[3]))

C6_Witness ==
    /\ pc = "end_pass"
    /\ pass = 2
    /\ heap[result].shape[1] >= 3 /\ heap[result].shape[2] >= 3
    /\ ~IsUniform(image)
    /\ heap[output].data # heap[result].data

\* C7: in whatever order the pixels of a pass are processed, the buffer the pass
\* reads is never the buffer it writes, stays the padded input of the pass, and
\* every value written is the mean of a window of that padded input alone.
C7_OrderIndependent ==
    pc \in {"pixel", "end_pass"} =>
        /\ padded # output /\ result # output /\ padded # result
        /\ heap[padded] = Pad(heap[result])
        /\ \A p \in WrittenCells(heap[output]) :
              heap[output].data[p]
                  = SumSeq(Window(Pad(heap[result]), p[1], p[2], p[3])) \div KernelArea

\* the first pixel of the row-major order is still to do after a later one was written
C7_Witness ==
    /\ pc = "pixel"
    /\ Len(todo) >= 1 /\ Head(todo) = <<0, 0>>
    /\ Len(todo) + 2 <= heap[output].shape[1] * heap[output].shape[2]
    /\ ~IsUniform(image)
    /\ pass = 1

\* C8: every call of noise_reduction ends after exactly 3 passes run one after the
\* other, a pass starting only once the one before is complete, and the clamp and
\* 8-bit conversion happens once, after the third pass.
C8_ThreePasses ==
    NoiseReductionCalled =>
        /\ pc = "done" => (passesDone = NumPasses /\ conversions = 1)
        /\ pc = "pad" => (todo = <<>> /\ passesDone = pass)
        /\ conversions > 0 => passesDone = NumPasses

\* C9 as stated: at most two float buffers of image size are live at any instant.
C9_AtMostTwo == Cardinality(LiveFloats) <= 2

\* C9 amended: at most three float buffers of at least image size are live at any
\* instant: the pass input (result), its padded copy (padded or the one just built)
\* and the pass output (output).  No float buffer exists before the call or after it has ended.
C9_AtMostThree ==
    /\ Cardinality(LiveFloats) <= 3
    /\ LiveFloats \subseteq Roots({result, padded, output, tmp})
    /\ pc \in {"validate", "open", "call", "save", "done"} => heap = <<>>

C9_Witness ==
    /\ pc = "pixel"
    /\ pass = 1
    /\ Cardinality(LiveFloats) = 3
    /\ LiveFloats = {result, padded, output}

\* C10: after every pass each value lies between the minimum and the maximum of the
\* input samples of its channel; the clamp to [0, 255] changes no value; every sample
\* of the output lies in 0..255 and between the input minimum and maximum of its channel.
C10_WithinInputRange ==
    NoiseReductionCalled =>
        /\ (result # 0 /\ heap[result].dtype = "float32") =>
              WithinInput(heap[result], DOMAIN heap[result].data)
        /\ pc \in {"pixel", "end_pass"} =>
              WithinInput(heap[output], WrittenCells(heap[output]))
        /\ pc = "convert" => heap[tmp] = heap[result]
        /\ processed_image # NoImage =>
              \A p \in DOMAIN processed_image.px : \A b \in DOMAIN processed_image.px[p] :
                  /\ processed_image.px[p][b] \in 0..255
                  /\ processed_image.px[p][b] >= Min(ChannelSamples(image, b))
                  /\ processed_image.px[p][b] <= Max(ChannelSamples(image, b))

C10_Witness ==
    /\ NoiseReductionCalled
    /\ pc = "done"
    /\ processed_image # NoImage
    /\ processed_image # image
    /\ \E p \in DOMAIN image.px : image.px[p][1] = Max(ChannelSamples(image, 1))
                                   /\ processed_image.px[p][1] < image.px[p][1]

====
